---------------------------- MODULE Spec2Model ----------------------------
(***************************************************************************)
(* Model of scripts/ai-flamegraph-analyzer.py: the analysis pipeline of    *)
(* FlamegraphAnalyzer (run_pprof_top -> parse_top_output ->                *)
(* identify_hotspots -> generate_recommendations -> generate_report).      *)
(*                                                                         *)
(* Text is a sequence of one-character strings, so that split, strip,      *)
(* substring containment, lower() and float() are computed as the code     *)
(* computes them.  A percentage is held in tenths (15.0 is 150): the tool  *)
(* outputs enumerated below carry one fractional digit, and all of them    *)
(* are multiples of 0.5, on which Python's float sums and the ".1f" format *)
(* are exact.                                                              *)
(***************************************************************************)
EXTENDS Integers, Sequences, FiniteSets, TLC

VARIABLES pc,              \* position of analyze(): start, parse, identify, recommend, report, done, failed
          top_output,      \* text returned by run_pprof_top
          functions,       \* list returned by parse_top_output
          idx,             \* identify_hotspots: index of the record of the for loop (1-based)
          rule,            \* identify_hotspots: the next rule to evaluate for that record (1..9, 10 = emit)
          priority,        \* identify_hotspots: local variable priority
          issues,          \* identify_hotspots: local variable issues
          hotspots,        \* identify_hotspots: local list hotspots; self.hotspots once returned
          recommendations, \* self.recommendations
          now,             \* wall clock, seconds (datetime.now())
          reports,         \* the text written by each call of generate_report, oldest first
          report_path      \* value returned by analyze(): None or the output path

vars == <<pc, top_output, functions, idx, rule, priority, issues, hotspots,
          recommendations, now, reports, report_path>>

None == <<"None">>

-----------------------------------------------------------------------------
(* Characters and strings                                                  *)

Digits == <<"0","1","2","3","4","5","6","7","8","9">>
Uppers == <<"A","B","C","D","E","F","G","H","I","J","K","L","M",
            "N","O","P","Q","R","S","T","U","V","W","X","Y","Z">>
Lowers == <<"a","b","c","d","e","f","g","h","i","j","k","l","m",
            "n","o","p","q","r","s","t","u","v","w","x","y","z">>

\* str.isspace() over the characters that occur
IsSpace(c) == c \in {" ", "\t", "\n", "\r"}

IsDigit(c) == \E i \in 1..10 : Digits[i] = c

DigitVal(c) == (CHOOSE i \in 1..10 : Digits[i] = c) - 1

LowerChar(c) ==
    IF \E i \in 1..26 : Uppers[i] = c
    THEN Lowers[CHOOSE i \in 1..26 : Uppers[i] = c]
    ELSE c

\* str.lower()
Lower(s) == [i \in 1..Len(s) |-> LowerChar(s[i])]

\* p in s
Contains(s, p) ==
    \E i \in 1..(Len(s) - Len(p) + 1) : SubSeq(s, i, i + Len(p) - 1) = p

\* any(pattern in s for pattern in patterns)
ContainsAny(s, patterns) ==
    \E k \in 1..Len(patterns) : Contains(s, patterns[k])

\* not s.strip()
IsBlank(s) == \A i \in 1..Len(s) : IsSpace(s[i])

RECURSIVE SplitOn(_, _)
\* s.split(sep) for a one-character separator
SplitOn(s, sep) ==
    IF \A i \in 1..Len(s) : s[i] # sep
    THEN <<s>>
    ELSE LET i == CHOOSE k \in 1..Len(s) :
                      s[k] = sep /\ \A j \in 1..(k - 1) : s[j] # sep
         IN  <<SubSeq(s, 1, i - 1)>> \o SplitOn(SubSeq(s, i + 1, Len(s)), sep)

RECURSIVE SplitWs(_)
\* s.split(): the maximal runs of non-whitespace characters
SplitWs(s) ==
    IF IsBlank(s)
    THEN <<>>
    ELSE LET b == CHOOSE k \in 1..Len(s) :
                      ~IsSpace(s[k]) /\ \A j \in 1..(k - 1) : IsSpace(s[j])
             e == CHOOSE k \in b..Len(s) :
                      /\ \A j \in b..k : ~IsSpace(s[j])
                      /\ (k = Len(s) \/ IsSpace(s[k + 1]))
         IN  <<SubSeq(s, b, e)>> \o SplitWs(SubSeq(s, e + 1, Len(s)))

RECURSIVE RStrip(_, _)
\* s.rstrip(c)
RStrip(s, c) ==
    IF Len(s) > 0 /\ s[Len(s)] = c THEN RStrip(SubSeq(s, 1, Len(s) - 1), c) ELSE s

RECURSIVE Join(_, _)
\* sep.join(parts)
Join(parts, sep) ==
    IF Len(parts) = 0 THEN <<>>
    ELSE IF Len(parts) = 1 THEN parts[1]
    ELSE parts[1] \o sep \o Join(Tail(parts), sep)

RECURSIVE Replace(_, _, _)
\* s.replace(old, new), old non-empty
Replace(s, old, new) ==
    IF Len(s) < Len(old) THEN s
    ELSE IF SubSeq(s, 1, Len(old)) = old
         THEN new \o Replace(SubSeq(s, Len(old) + 1, Len(s)), old, new)
         ELSE <<s[1]>> \o Replace(Tail(s), old, new)

RECURSIVE Num(_)
\* the value of a run of decimal digits
Num(ds) ==
    IF Len(ds) = 0 THEN 0
    ELSE 10 * Num(SubSeq(ds, 1, Len(ds) - 1)) + DigitVal(ds[Len(ds)])

RECURSIVE Dec(_)
\* the decimal digits of a natural number
Dec(n) == IF n < 10 THEN <<Digits[n + 1]>> ELSE Dec(n \div 10) \o <<Digits[(n % 10) + 1]>>

\* float(s) succeeds: digits with at most one point and at least one digit
\* (the texts enumerated carry no sign, exponent, "inf", "nan" or underscore)
IsFloat(s) ==
    /\ \E i \in 1..Len(s) : IsDigit(s[i])
    /\ \A i \in 1..Len(s) : IsDigit(s[i]) \/ s[i] = "."
    /\ Cardinality({i \in 1..Len(s) : s[i] = "."}) <= 1

\* float(s) in tenths, for a text with at most one fractional digit
FloatTenths(s) ==
    IF \A i \in 1..Len(s) : s[i] # "."
    THEN 10 * Num(s)
    ELSE LET d == CHOOSE i \in 1..Len(s) : s[i] = "."
         IN  10 * Num(SubSeq(s, 1, d - 1))
               + (IF d < Len(s) THEN DigitVal(s[d + 1]) ELSE 0)

\* f"{x:.1f}" of a value held in tenths
Fmt1(x) == Dec(x \div 10) \o <<".">> \o <<Digits[(x % 10) + 1]>>

-----------------------------------------------------------------------------
(* parse_top_output                                                        *)

K_flat == <<"f","l","a","t">>
K_cum  == <<"c","u","m">>

\* line 49: 'flat' in line and 'cum' in line
IsHeaderLine(line) == Contains(line, K_flat) /\ Contains(line, K_cum)

\* lines 57-74: the record of one candidate line, as a list of zero or one record
ParseLine(line) ==
    LET parts == SplitWs(line) IN
    IF Len(parts) >= 6
    THEN LET flat_pct == RStrip(parts[2], "%")
             cum_pct  == RStrip(parts[5], "%")
         IN  IF IsFloat(flat_pct) /\ IsFloat(cum_pct)
             THEN <<[flat_time |-> parts[1],
                     flat_pct  |-> FloatTenths(flat_pct),
                     cum_time  |-> parts[4],
                     cum_pct   |-> FloatTenths(cum_pct),
                     name      |-> Join(SubSeq(parts, 6, Len(parts)), <<" ">>)]>>
             ELSE <<>>
    ELSE <<>>

RECURSIVE ParseLines(_, _)
\* lines 47-74: the for loop over lines, data_started carried along
ParseLines(lines, data_started) ==
    IF Len(lines) = 0 THEN <<>>
    ELSE LET line == Head(lines) IN
         IF IsHeaderLine(line) THEN ParseLines(Tail(lines), TRUE)
         ELSE IF ~data_started \/ IsBlank(line) THEN ParseLines(Tail(lines), data_started)
         ELSE ParseLine(line) \o ParseLines(Tail(lines), data_started)

parse_top_output(text) == ParseLines(SplitOn(text, "\n"), FALSE)


-----------------------------------------------------------------------------
(* The analyzer object and the tool outputs it is run on                   *)

\* the largest index of c in s, 0 when there is none
LastIndexOf(s, c) ==
    IF \E i \in 1..Len(s) : s[i] = c
    THEN CHOOSE i \in 1..Len(s) : s[i] = c /\ \A j \in (i + 1)..Len(s) : s[j] # c
    ELSE 0

\* Path(p).name
PathName(p) == SubSeq(p, LastIndexOf(p, "/") + 1, Len(p))

\* Path(p).stem: the name without its last suffix
PathStem(p) ==
    LET n == PathName(p)
        d == LastIndexOf(n, ".")
    IN  IF d > 1 THEN SubSeq(n, 1, d - 1) ELSE n

\* Path(p).parent / name, for an absolute path p
PathSibling(p, name) == SubSeq(p, 1, LastIndexOf(p, "/")) \o name

\* sys.argv[1]
profile_path == <<"/","t","/","c","p","u",".","p","b",".","g","z">>

\* __init__: self.profile_name
profile_name == PathStem(profile_path)

\* bounds of the enumeration of tool outputs
MaxLines    == 3    \* lines of a free-form tool output
MaxFindings == 11   \* data rows of a long table
MaxClock    == 1    \* seconds the wall clock may advance during a run
MaxRenders  == 2    \* calls of generate_report on one analyzer

HeaderLine == <<" "," "," "," "," "," ","f","l","a","t"," "," ","f","l","a","t","%"," "," "," ","s","u","m","%"," "," "," "," "," "," "," "," ","c","u","m"," "," "," ","c","u","m","%">>

\* a data row of the table: flat flat% sum% cum cum% name
Row(flat, cum, name) ==
    Join(<<<<"1","0","m","s">>, flat \o <<"%">>, <<"5","0",".","0","%">>, <<"2","0","m","s">>, cum \o <<"%">>>> \o name, <<" "," ">>)

FlatTexts == {<<"3",".","0">>, <<"3",".","5">>, <<"5",".","0">>, <<"5",".","5">>, <<"1","0",".","0">>, <<"1","0",".","5">>}
CumTexts  == {<<"2","0",".","0">>, <<"2","0",".","5">>}

\* function names, as the whitespace-separated parts of the last column
Names ==
    { <<<<"m","a","i","n",".","r","u","n">>>>,
      <<<<"r","u","n","t","i","m","e",".","m","a","l","l","o","c","g","c">>, <<"(","i","n","l","i","n","e",")">>>>,
      <<<<"s","y","n","c",".","(","*","M","u","t","e","x",")",".","L","o","c","k">>>>,
      <<<<"j","s","o","n",".","M","a","r","s","h","a","l">>>>,
      <<<<"s","q","l",".","(","*","D","B",")",".","Q","u","e","r","y">>>>,
      <<<<"r","e","f","l","e","c","t",".","V","a","l","u","e",".","C","a","l","l">>>>,
      <<<<"r","e","g","e","x","p",".","m","a","t","c","h">>>>,
      <<<<"s","y","s","c","a","l","l",".","R","e","a","d">>>>,
      <<<<"c","a","c","h","e",".","g","c","J","S","O","N">>>>,
      <<<<"j","s","o","n",".","e","x","e","c","S","Q","L">>>>,
      <<<<"d","b",".","q","u","e","r","y","R","e","f","l","e","c","t">>>>,
      <<<<"m","e","m",".","S","w","e","e","p","L","o","c","k","e","d">>>> }

L_blank   == <<" "," ">>
L_short   == <<"1","0","m","s"," "," ","1","0",".","5","%"," "," ","5","0",".","0","%"," "," ","2","0","m","s">>
L_badpct  == Row(<<"n","/","a">>, <<"2","5",".","0">>, <<<<"r","u","n","t","i","m","e",".","g","c","D","r","a","i","n">>>>)
L_gc      == Row(<<"5",".","0">>, <<"2","0",".","5">>, <<<<"r","u","n","t","i","m","e",".","g","c","D","r","a","i","n">>>>)
L_lock    == Row(<<"3",".","0">>, <<"2","0",".","0">>, <<<<"s","y","n","c",".","(","*","M","u","t","e","x",")",".","L","o","c","k">>>>)
L_plain   == Row(<<"3",".","0">>, <<"2","0",".","0">>, <<<<"m","a","i","n",".","r","u","n">>>>)
L_sql     == Row(<<"5",".","5">>, <<"2","0",".","0">>, <<<<"s","q","l",".","(","*","D","B",")",".","Q","u","e","r","y">>>>)
L_flatcum == Row(<<"5",".","5">>, <<"2","0",".","0">>, <<<<"i","o",".","f","l","a","t","A","c","c","u","m","u","l","a","t","e">>>>)

LinePool == {L_blank, HeaderLine, L_short, L_badpct, L_gc, L_lock, L_plain, L_flatcum}

\* free-form outputs: up to MaxLines lines of LinePool
FreeOutputs ==
    UNION { { Join(ls, <<"\n">>) : ls \in [1..n -> LinePool] } : n \in 1..MaxLines }

\* a table of one data row, over every percentage and name
OneRowOutputs ==
    { Join(<<HeaderLine, Row(f, c, n)>>, <<"\n">>) :
        f \in FlatTexts, c \in CumTexts, n \in Names }

\* long tables: n rows L_lock, row j (if any) replaced by L_sql
LongOutputs ==
    { Join(<<HeaderLine>> \o [i \in 1..n |-> IF i = j THEN L_sql ELSE L_lock], <<"\n">>) :
        n \in 1..MaxFindings, j \in 0..MaxFindings }

\* what `go tool pprof -top` can print
ToolOutputs == FreeOutputs \cup OneRowOutputs \cup LongOutputs

-----------------------------------------------------------------------------
(* __init__, and analyze() up to the parsed table                          *)

Init ==
    /\ pc = "start"
    /\ top_output = <<>>
    /\ functions = <<>>
    /\ idx = 0
    /\ rule = 0
    /\ priority = "LOW"
    /\ issues = <<>>
    /\ hotspots = <<>>
    /\ recommendations = <<>>
    /\ now = 0
    /\ reports = <<>>
    /\ report_path = None

\* run_pprof_top (lines 27-39) and the check of its result in analyze (349-352):
\* the tool's stdout, or "" when subprocess.run raises
RunPprofTop ==
    /\ pc = "start"
    /\ \E out \in ToolOutputs \cup {<<>>} :
          /\ top_output' = out
          /\ pc' = IF out = <<>> THEN "failed" ELSE "parse"
    /\ UNCHANGED <<functions, idx, rule, priority, issues, hotspots,
                   recommendations, now, reports, report_path>>

\* analyze line 355, and the entry of identify_hotspots (lines 80-84)
ParseTopOutput ==
    /\ pc = "parse"
    /\ functions' = parse_top_output(top_output)
    /\ pc' = "identify"
    /\ idx' = 1
    /\ rule' = 1
    /\ priority' = "LOW"
    /\ issues' = <<>>
    /\ hotspots' = <<>>
    /\ UNCHANGED <<top_output, recommendations, now, reports, report_path>>


-----------------------------------------------------------------------------
(* identify_hotspots: one step per rule of the loop body, for record idx   *)

\* a percentage of the source, in tenths
Pct(n) == 10 * n

GcPatterns      == <<<<"g","c">>, <<"g","a","r","b","a","g","e">>, <<"s","w","e","e","p">>>>
LockPatterns    == <<<<"l","o","c","k">>, <<"m","u","t","e","x">>, <<"s","y","n","c">>>>
JsonPatterns    == <<<<"j","s","o","n">>, <<"m","a","r","s","h","a","l">>, <<"u","n","m","a","r","s","h","a","l">>>>
SqlPatterns     == <<<<"s","q","l">>, <<"q","u","e","r","y">>, <<"e","x","e","c">>>>
ReflectPatterns == <<<<"r","e","f","l","e","c","t">>>>
RegexPatterns   == <<<<"r","e","g","e","x">>, <<"r","e","g","e","x","p">>>>
SyscallPatterns == <<<<"s","y","s","c","a","l","l">>>>

\* f"Consumes {flat_pct:.1f}% CPU directly"
ConsumesIssue(flat_pct) == <<"C","o","n","s","u","m","e","s"," ">> \o Fmt1(flat_pct) \o <<"%"," ","C","P","U"," ","d","i","r","e","c","t","l","y">>
\* f"Call tree consumes {cum_pct:.1f}% total CPU"
CallTreeIssue(cum_pct)  == <<"C","a","l","l"," ","t","r","e","e"," ","c","o","n","s","u","m","e","s"," ">> \o Fmt1(cum_pct) \o <<"%"," ","t","o","t","a","l"," ","C","P","U">>
GcIssue      == <<"G","a","r","b","a","g","e"," ","c","o","l","l","e","c","t","i","o","n"," ","o","v","e","r","h","e","a","d">>
LockIssue    == <<"S","y","n","c","h","r","o","n","i","z","a","t","i","o","n","/","l","o","c","k","i","n","g"," ","d","e","t","e","c","t","e","d">>
JsonIssue    == <<"J","S","O","N"," ","s","e","r","i","a","l","i","z","a","t","i","o","n"," ","o","v","e","r","h","e","a","d">>
SqlIssue     == <<"D","a","t","a","b","a","s","e"," ","q","u","e","r","y"," ","o","v","e","r","h","e","a","d">>
ReflectIssue == <<"R","e","f","l","e","c","t","i","o","n"," ","u","s","a","g","e"," ","(","s","l","o","w",")">>
RegexIssue   == <<"R","e","g","u","l","a","r"," ","e","x","p","r","e","s","s","i","o","n"," ","o","v","e","r","h","e","a","d">>
SyscallIssue == <<"S","y","s","t","e","m"," ","c","a","l","l"," ","o","v","e","r","h","e","a","d">>

\* the loop variable func
func == functions[idx]

\* any(pattern in func['name'].lower() for pattern in patterns)
NameMatches(patterns) == ContainsAny(Lower(func.name), patterns)

InRule(k) == pc = "identify" /\ idx <= Len(functions) /\ rule = k

Untouched == UNCHANGED <<pc, top_output, functions, idx, hotspots,
                         recommendations, now, reports, report_path>>

\* lines 86-92: high flat percentage
Rule1 ==
    /\ InRule(1)
    /\ IF func.flat_pct > Pct(10)
       THEN /\ priority' = "HIGH"
            /\ issues' = Append(issues, ConsumesIssue(func.flat_pct))
       ELSE IF func.flat_pct > Pct(5)
       THEN /\ priority' = "MEDIUM"
            /\ issues' = Append(issues, ConsumesIssue(func.flat_pct))
       ELSE UNCHANGED <<priority, issues>>
    /\ rule' = 2
    /\ Untouched

\* lines 94-98: high cumulative percentage
Rule2 ==
    /\ InRule(2)
    /\ IF func.cum_pct > Pct(20)
       THEN /\ priority' = IF priority # "HIGH" THEN "MEDIUM" ELSE priority
            /\ issues' = Append(issues, CallTreeIssue(func.cum_pct))
       ELSE UNCHANGED <<priority, issues>>
    /\ rule' = 3
    /\ Untouched

\* the priority a keyword rule leaves: lines 103-104, 108-109, 113-114, 118-119, 123-124
KeywordPriority(current, flat_pct, threshold, level) ==
    IF flat_pct > threshold THEN level ELSE current

\* lines 101-104: garbage collection
Rule3 ==
    /\ InRule(3)
    /\ IF NameMatches(GcPatterns)
       THEN /\ issues' = Append(issues, GcIssue)
            /\ priority' = KeywordPriority(priority, func.flat_pct, Pct(5), "HIGH")
       ELSE UNCHANGED <<priority, issues>>
    /\ rule' = 4
    /\ Untouched

\* lines 106-109: locking
Rule4 ==
    /\ InRule(4)
    /\ IF NameMatches(LockPatterns)
       THEN /\ issues' = Append(issues, LockIssue)
            /\ priority' = KeywordPriority(priority, func.flat_pct, Pct(3), "HIGH")
       ELSE UNCHANGED <<priority, issues>>
    /\ rule' = 5
    /\ Untouched

\* lines 111-114: JSON serialization
Rule5 ==
    /\ InRule(5)
    /\ IF NameMatches(JsonPatterns)
       THEN /\ issues' = Append(issues, JsonIssue)
            /\ priority' = KeywordPriority(priority, func.flat_pct, Pct(5), "MEDIUM")
       ELSE UNCHANGED <<priority, issues>>
    /\ rule' = 6
    /\ Untouched

\* lines 116-119: database
Rule6 ==
    /\ InRule(6)
    /\ IF NameMatches(SqlPatterns)
       THEN /\ issues' = Append(issues, SqlIssue)
            /\ priority' = KeywordPriority(priority, func.flat_pct, Pct(5), "HIGH")
       ELSE UNCHANGED <<priority, issues>>
    /\ rule' = 7
    /\ Untouched

\* lines 121-124: reflection
Rule7 ==
    /\ InRule(7)
    /\ IF NameMatches(ReflectPatterns)
       THEN /\ issues' = Append(issues, ReflectIssue)
            /\ priority' = KeywordPriority(priority, func.flat_pct, Pct(3), "MEDIUM")
       ELSE UNCHANGED <<priority, issues>>
    /\ rule' = 8
    /\ Untouched

\* lines 126-127: regular expressions
Rule8 ==
    /\ InRule(8)
    /\ issues' = IF NameMatches(RegexPatterns) THEN Append(issues, RegexIssue) ELSE issues
    /\ rule' = 9
    /\ UNCHANGED priority
    /\ Untouched

\* lines 129-130: system calls
Rule9 ==
    /\ InRule(9)
    /\ issues' = IF NameMatches(SyscallPatterns) THEN Append(issues, SyscallIssue) ELSE issues
    /\ rule' = 10
    /\ UNCHANGED priority
    /\ Untouched

\* faulty variant of Emit: the test of line 132 left out (C6 must detect it)
EmitAlways(hs, f, p, is) ==
    Append(hs, [function |-> f.name,
                flat_pct |-> f.flat_pct,
                cum_pct  |-> f.cum_pct,
                priority |-> p,
                issues   |-> is])

\* lines 132-139: the list hotspots after the record f has been evaluated
Emit(hs, f, p, is) ==
    IF is # <<>>
    THEN Append(hs, [function |-> f.name,
                     flat_pct |-> f.flat_pct,
                     cum_pct  |-> f.cum_pct,
                     priority |-> p,
                     issues   |-> is])
    ELSE hs

\* lines 132-139, then the next iteration's lines 83-84
AppendHotspot ==
    /\ InRule(10)
    /\ hotspots' = Emit(hotspots, func, priority, issues)
    /\ idx' = idx + 1
    /\ rule' = 1
    /\ priority' = "LOW"
    /\ issues' = <<>>
    /\ UNCHANGED <<pc, top_output, functions, recommendations, now, reports, report_path>>

\* line 141, and analyze line 359: self.hotspots = the list
ReturnHotspots ==
    /\ pc = "identify"
    /\ idx > Len(functions)
    /\ pc' = "recommend"
    /\ UNCHANGED <<top_output, functions, idx, rule, priority, issues, hotspots,
                   recommendations, now, reports, report_path>>


-----------------------------------------------------------------------------
(* generate_recommendations                                                *)

\* lines 160-173: the key of issue_groups the elif chain appends to ("" for none)
GroupOf(issue) ==
    LET l == Lower(issue) IN
    IF Contains(l, <<"g","a","r","b","a","g","e"," ","c","o","l","l","e","c","t","i","o","n">>) THEN "gc"
    ELSE IF Contains(l, <<"s","y","n","c","h","r","o","n","i","z","a","t","i","o","n">>) \/ Contains(l, <<"l","o","c","k","i","n","g">>) THEN "lock"
    ELSE IF Contains(l, <<"j","s","o","n">>) THEN "json"
    ELSE IF Contains(l, <<"d","a","t","a","b","a","s","e">>) THEN "sql"
    ELSE IF Contains(l, <<"r","e","f","l","e","c","t","i","o","n">>) THEN "reflect"
    ELSE IF Contains(l, <<"r","e","g","u","l","a","r"," ","e","x","p","r","e","s","s","i","o","n">>) THEN "regex"
    ELSE IF Contains(l, <<"s","y","s","t","e","m"," ","c","a","l","l">>) THEN "syscall"
    ELSE ""

RECURSIVE AppendsOf(_, _, _)
\* lines 159-173 for one hotspot: h once for each of its issues that falls in group g
AppendsOf(h, is, g) ==
    IF Len(is) = 0 THEN <<>>
    ELSE (IF GroupOf(Head(is)) = g THEN <<h>> ELSE <<>>) \o AppendsOf(h, Tail(is), g)

RECURSIVE IssueGroup(_, _)
\* lines 158-173: issue_groups[g] after the loops
IssueGroup(hs, g) ==
    IF Len(hs) = 0 THEN <<>>
    ELSE AppendsOf(Head(hs), Head(hs).issues, g) \o IssueGroup(Tail(hs), g)

RECURSIVE SumCum(_)
\* faulty variant of SumFlat: cum_pct summed instead of flat_pct (C8 must detect it)
SumCum(group) ==
    IF Len(group) = 0 THEN 0 ELSE Head(group).cum_pct + SumCum(Tail(group))

RECURSIVE SumFlat(_)
\* sum(h['flat_pct'] for h in group)
SumFlat(group) ==
    IF Len(group) = 0 THEN 0 ELSE Head(group).flat_pct + SumFlat(Tail(group))

\* faulty variant of ThresholdPriority: >= for > (C9 must detect it)
ThresholdPriorityInclusive(total, threshold, above, below) ==
    IF total >= threshold THEN above ELSE below

\* 'X' if total > threshold else 'Y'
ThresholdPriority(total, threshold, above, below) ==
    IF total > threshold THEN above ELSE below

\* lines 176-188
GcEntry(group) ==
    IF Len(group) > 0
    THEN <<[category    |-> "Memory Management",
            priority    |-> ThresholdPriority(SumFlat(group), Pct(10), "HIGH", "MEDIUM"),
            issue       |-> <<"G","C"," ","o","v","e","r","h","e","a","d",":"," ">> \o Fmt1(SumFlat(group)) \o <<"%"," ","C","P","U">>,
            suggestions |-> <<"Reduce allocations using object pooling (sync.Pool)",
                              "Pre-allocate slices and maps with known capacity",
                              "Use value types instead of pointers where possible",
                              "Consider increasing GOGC value if memory permits">>]>>
    ELSE <<>>

\* lines 190-203
LockEntry(group) ==
    IF Len(group) > 0
    THEN <<[category    |-> "Concurrency",
            priority    |-> ThresholdPriority(SumFlat(group), Pct(5), "HIGH", "MEDIUM"),
            issue       |-> <<"L","o","c","k"," ","c","o","n","t","e","n","t","i","o","n",":"," ">> \o Fmt1(SumFlat(group)) \o <<"%"," ","C","P","U">>,
            suggestions |-> <<"Reduce lock granularity (use more fine-grained locks)",
                              "Replace mutexes with channels where appropriate",
                              "Use sync.RWMutex for read-heavy workloads",
                              "Consider lock-free data structures",
                              "Run blocking profile: make profile-block">>]>>
    ELSE <<>>

\* lines 205-217
JsonEntry(group) ==
    IF Len(group) > 0
    THEN <<[category    |-> "Serialization",
            priority    |-> ThresholdPriority(SumFlat(group), Pct(5), "MEDIUM", "LOW"),
            issue       |-> <<"J","S","O","N"," ","o","v","e","r","h","e","a","d",":"," ">> \o Fmt1(SumFlat(group)) \o <<"%"," ","C","P","U">>,
            suggestions |-> <<"Use json.RawMessage for delayed parsing",
                              "Consider faster alternatives (easyjson, jsoniter)",
                              "Batch JSON operations",
                              "Use streaming for large payloads">>]>>
    ELSE <<>>

\* lines 219-232
SqlEntry(group) ==
    IF Len(group) > 0
    THEN <<[category    |-> "Database",
            priority    |-> ThresholdPriority(SumFlat(group), Pct(10), "HIGH", "MEDIUM"),
            issue       |-> <<"D","a","t","a","b","a","s","e"," ","o","v","e","r","h","e","a","d",":"," ">> \o Fmt1(SumFlat(group)) \o <<"%"," ","C","P","U">>,
            suggestions |-> <<"Add indexes for slow queries",
                              "Use prepared statements",
                              "Implement caching layer (Redis)",
                              "Batch database operations",
                              "Consider connection pooling optimization">>]>>
    ELSE <<>>

\* lines 234-246
ReflectEntry(group) ==
    IF Len(group) > 0
    THEN <<[category    |-> "Code Generation",
            priority    |-> "MEDIUM",
            issue       |-> <<"R","e","f","l","e","c","t","i","o","n"," ","o","v","e","r","h","e","a","d",":"," ">> \o Fmt1(SumFlat(group)) \o <<"%"," ","C","P","U">>,
            suggestions |-> <<"Replace reflection with code generation",
                              "Cache reflection results",
                              "Use concrete types instead of interface{}",
                              "Consider compile-time alternatives">>]>>
    ELSE <<>>

\* faulty variant of generate_recommendations: the first two blocks exchanged
\* (C7 must detect it)
generate_recommendations_swapped(hs) ==
       LockEntry(IssueGroup(hs, "lock"))
    \o GcEntry(IssueGroup(hs, "gc"))
    \o JsonEntry(IssueGroup(hs, "json"))
    \o SqlEntry(IssueGroup(hs, "sql"))
    \o ReflectEntry(IssueGroup(hs, "reflect"))

\* lines 143-248
generate_recommendations(hs) ==
       GcEntry(IssueGroup(hs, "gc"))
    \o LockEntry(IssueGroup(hs, "lock"))
    \o JsonEntry(IssueGroup(hs, "json"))
    \o SqlEntry(IssueGroup(hs, "sql"))
    \o ReflectEntry(IssueGroup(hs, "reflect"))

\* analyze line 363
GenerateRecommendations ==
    /\ pc = "recommend"
    /\ recommendations' = generate_recommendations(hotspots)
    /\ pc' = "report"
    /\ UNCHANGED <<top_output, functions, idx, rule, priority, issues, hotspots,
                   now, reports, report_path>>


-----------------------------------------------------------------------------
(* generate_report: the text written, one element per f.write              *)

\* one f.write: the literal text of the f-string with {} for each field, and
\* the fields' values in order (the emoji of the headings are left out, and a
\* backquote is written as an apostrophe)
W(fmt, args) == [fmt |-> fmt, args |-> args]

RECURSIVE Flatten(_)
Flatten(ss) == IF Len(ss) = 0 THEN <<>> ELSE Head(ss) \o Flatten(Tail(ss))

\* datetime.now().strftime('%Y-%m-%d %H:%M:%S') for the clock at second t of the run
Strftime(t) == <<"2","0","2","5","-","0","1","-","0","1"," ","0","0",":","0","0",":">> \o <<Digits[(t \div 10) + 1], Digits[(t % 10) + 1]>>

\* lines 279-283 and 302-306: priority_emoji
PriorityEmoji(p) ==
    CASE p = "HIGH"   -> "red circle"
      [] p = "MEDIUM" -> "yellow circle"
      [] p = "LOW"    -> "green circle"

\* faulty variant of Listed: the slice left out (C10 must detect it)
ListedAll(hs) == hs

\* line 278: self.hotspots[:10]
Listed(hs) == SubSeq(hs, 1, IF Len(hs) < 10 THEN Len(hs) ELSE 10)

\* lines 264-273
SummarySection(hs) ==
    IF Len(hs) > 0
    THEN LET top_hotspot   == hs[1]
             high_priority == SelectSeq(hs, LAMBDA h : h.priority = "HIGH")
         IN  << W("**Top Hotspot:** '{}'\n", <<top_hotspot.function>>),
                W("- **CPU Usage:** {}% (direct)\n", <<Fmt1(top_hotspot.flat_pct)>>),
                W("- **Priority:** {}\n\n", <<top_hotspot.priority>>),
                W("**Critical Issues:** {} high-priority hotspots found\n\n",
                  <<Dec(Len(high_priority))>>) >>
    ELSE << W("No significant hotspots detected. Performance appears optimal.\n\n", <<>>) >>

\* lines 279-294: the block of hotspot number i
HotspotBlock(i, hotspot) ==
    << W("### {}. {} {} Priority\n\n",
         <<Dec(i), PriorityEmoji(hotspot.priority), hotspot.priority>>),
       W("**Function:** '{}'\n\n", <<hotspot.function>>),
       W("**Metrics:**\n", <<>>),
       W("- Direct CPU: {}%\n", <<Fmt1(hotspot.flat_pct)>>),
       W("- Total CPU (with callees): {}%\n\n", <<Fmt1(hotspot.cum_pct)>>),
       W("**Issues Identified:**\n", <<>>) >>
    \o [k \in 1..Len(hotspot.issues) |-> W("- {}\n", <<hotspot.issues[k]>>)]
    \o << W("\n", <<>>) >>

\* lines 277-296
HotspotSection(hs) ==
    IF Len(hs) > 0
    THEN Flatten([i \in 1..Len(Listed(hs)) |-> HotspotBlock(i, Listed(hs)[i])])
    ELSE << W("No hotspots detected.\n\n", <<>>) >>

\* lines 302-314: the block of recommendation number i
RecommendationBlock(i, rec) ==
    << W("### {}. {} {}\n\n", <<Dec(i), PriorityEmoji(rec.priority), rec.category>>),
       W("**Priority:** {}\n", <<rec.priority>>),
       W("**Issue:** {}\n\n", <<rec.issue>>),
       W("**Suggested Actions:**\n", <<>>) >>
    \o [k \in 1..Len(rec.suggestions) |-> W("- {}\n", <<rec.suggestions[k]>>)]
    \o << W("\n", <<>>) >>

\* lines 300-316
RecommendationSection(recs) ==
    IF Len(recs) > 0
    THEN Flatten([i \in 1..Len(recs) |-> RecommendationBlock(i, recs[i])])
    ELSE << W("No specific recommendations. Profile looks healthy!\n\n", <<>>) >>

\* lines 318-339
NextStepsSection ==
    << W("## Next Steps\n\n", <<>>),
       W("1. **Review the flamegraph visually:**\n", <<>>),
       W("   '''bash\n", <<>>),
       W("   firefox {}\n", <<Replace(profile_path, <<".","p","b",".","g","z">>, <<".","s","v","g">>)>>),
       W("   '''\n\n", <<>>),
       W("2. **Interactive analysis:**\n", <<>>),
       W("   '''bash\n", <<>>),
       W("   go tool pprof {}\n", <<profile_path>>),
       W("   # Commands: top, list <function>, web\n", <<>>),
       W("   '''\n\n", <<>>),
       W("3. **Generate additional profiles:**\n", <<>>),
       W("   '''bash\n", <<>>),
       W("   make profile-heap      # Memory allocation profile\n", <<>>),
       W("   make profile-goroutine # Goroutine usage\n", <<>>),
       W("   make profile-block     # Blocking operations\n", <<>>),
       W("   make profile-mutex     # Lock contention\n", <<>>),
       W("   '''\n\n", <<>>),
       W("---\n\n", <<>>),
       W("*Generated by AI Flamegraph Analyzer*\n", <<>>) >>

\* line 252
output_path == PathSibling(profile_path, profile_name \o <<"_","a","n","a","l","y","s","i","s",".","m","d">>)

\* lines 254-339: the text written when the clock reads t
generate_report(hs, recs, t) ==
    << W("# Flamegraph Analysis Report\n\n", <<>>),
       W("**Profile:** '{}'\n", <<profile_name>>),
       W("**Generated:** {}\n", <<Strftime(t)>>),
       W("**Profile Path:** '{}'\n\n", <<profile_path>>),
       W("---\n\n", <<>>),
       W("## Executive Summary\n\n", <<>>) >>
    \o SummarySection(hs)
    \o << W("## Top Performance Hotspots\n\n", <<>>) >>
    \o HotspotSection(hs)
    \o << W("## Optimization Recommendations\n\n", <<>>) >>
    \o RecommendationSection(recs)
    \o NextStepsSection

\* analyze lines 368-385: generate_report, the summary printed, the path returned
GenerateReport ==
    /\ pc = "report"
    /\ \E t \in now..MaxClock :
          /\ now' = t
          /\ reports' = Append(reports, generate_report(hotspots, recommendations, t))
    /\ report_path' = output_path
    /\ pc' = "done"
    /\ UNCHANGED <<top_output, functions, idx, rule, priority, issues, hotspots,
                   recommendations>>

\* generate_report called again on the same analyzer, the clock having moved or not
RenderAgain ==
    /\ pc = "done"
    /\ Len(reports) < MaxRenders
    /\ \E t \in now..MaxClock :
          /\ now' = t
          /\ reports' = Append(reports, generate_report(hotspots, recommendations, t))
    /\ UNCHANGED <<pc, top_output, functions, idx, rule, priority, issues, hotspots,
                   recommendations, report_path>>


-----------------------------------------------------------------------------
(* Properties                                                              *)

\* LOW < MEDIUM < HIGH
Rank(p) == CASE p = "LOW" -> 0 [] p = "MEDIUM" -> 1 [] p = "HIGH" -> 2

RankMax(S) == CHOOSE m \in S : \A x \in S : x <= m

Identified == pc \in {"recommend", "report", "done"}

\* the records the for loop of identify_hotspots has finished with
Processed ==
    IF pc = "identify" THEN SubSeq(functions, 1, idx - 1)
    ELSE IF Identified THEN functions
    ELSE <<>>

HasKeyword(name, patterns) == ContainsAny(Lower(name), patterns)

\* C1: while the nine rules are applied to a record, no rule lowers the
\* priority earlier rules assigned (LOW < MEDIUM < HIGH).
C1_NoRuleLowersPriority ==
    [][(pc = "identify" /\ rule \in 1..9) => Rank(priority') >= Rank(priority)]_vars

\* the records parse_top_output is to emit: one for each line after the first
\* header line that has at least 6 tokens whose tokens 1 and 4 parse
HasSixTokensAndPercentages(line) ==
    LET parts == SplitWs(line) IN
    /\ Len(parts) >= 6
    /\ IsFloat(RStrip(parts[2], "%"))
    /\ IsFloat(RStrip(parts[5], "%"))

RowsAfterFirstHeader(text) ==
    LET lines == SplitOn(text, "\n") IN
    IF \E i \in 1..Len(lines) : IsHeaderLine(lines[i])
    THEN LET h == CHOOSE i \in 1..Len(lines) :
                      IsHeaderLine(lines[i]) /\ \A j \in 1..(i - 1) : ~IsHeaderLine(lines[j])
         IN  SelectSeq(SubSeq(lines, h + 1, Len(lines)), HasSixTokensAndPercentages)
    ELSE <<>>

\* C2: parse_top_output emits exactly one record, in input order, for each line
\* after the first header line that has at least 6 tokens and two parseable
\* percentages, and no record for any other line.
C2_OneRecordPerDataLine ==
    pc \notin {"start", "parse", "failed"} =>
        LET rows == RowsAfterFirstHeader(top_output) IN
        /\ Len(functions) = Len(rows)
        /\ \A i \in 1..Len(rows) : <<functions[i]>> = ParseLine(rows[i])

\* C3: two calls of generate_report on the same hotspot and recommendation
\* sequences write the same text, whatever the wall clock reads.
C3_RenderingDeterministic ==
    \A i, j \in 1..Len(reports) : reports[i] = reports[j]

HasNoHeader(text) ==
    \A line \in {SplitOn(text, "\n")[i] : i \in 1..Len(SplitOn(text, "\n"))} : ~IsHeaderLine(line)

HasLine(report, fmt) == \E i \in 1..Len(report) : report[i].fmt = fmt

\* C4: a run on an empty or header-less tool output never fails; it ends with
\* zero records, findings and recommendations and a report that says that no
\* hotspots were detected and that the profile looks healthy.
C4_EmptyInputSucceeds ==
    (pc # "start" /\ HasNoHeader(top_output)) =>
        /\ pc # "failed"
        /\ pc = "done" =>
             /\ functions = <<>> /\ hotspots = <<>> /\ recommendations = <<>>
             /\ report_path # None
             /\ HasLine(reports[1], "No hotspots detected.\n\n")
             /\ HasLine(reports[1], "No specific recommendations. Profile looks healthy!\n\n")

\* the escalation levels of the rules a record triggers
TriggeredLevels(flat_pct, cum_pct, name) ==
       (IF flat_pct > Pct(10) THEN {2} ELSE IF flat_pct > Pct(5) THEN {1} ELSE {})
  \cup (IF cum_pct > Pct(20) THEN {1} ELSE {})
  \cup (IF HasKeyword(name, GcPatterns) /\ flat_pct > Pct(5) THEN {2} ELSE {})
  \cup (IF HasKeyword(name, LockPatterns) /\ flat_pct > Pct(3) THEN {2} ELSE {})
  \cup (IF HasKeyword(name, JsonPatterns) /\ flat_pct > Pct(5) THEN {1} ELSE {})
  \cup (IF HasKeyword(name, SqlPatterns) /\ flat_pct > Pct(5) THEN {2} ELSE {})
  \cup (IF HasKeyword(name, ReflectPatterns) /\ flat_pct > Pct(3) THEN {1} ELSE {})

\* C5: the priority of every finding is the maximum of LOW and the escalation
\* levels of the rules its record triggers.
C5_PriorityIsMaxOfTriggered ==
    \A k \in 1..Len(hotspots) :
        Rank(hotspots[k].priority) =
            RankMax({0} \cup TriggeredLevels(hotspots[k].flat_pct, hotspots[k].cum_pct,
                                             hotspots[k].function))

AllPatterns == GcPatterns \o LockPatterns \o JsonPatterns \o SqlPatterns
               \o ReflectPatterns \o RegexPatterns \o SyscallPatterns

\* the record triggers at least one of the nine rules
Triggers(f) ==
    f.flat_pct > Pct(5) \/ f.cum_pct > Pct(20) \/ HasKeyword(f.name, AllPatterns)

\* the rule that appends the issue text i to a finding h (0 for no rule)
RuleOfIssue(h, i) ==
    CASE i = ConsumesIssue(h.flat_pct) -> 1
      [] i = CallTreeIssue(h.cum_pct)  -> 2
      [] i = GcIssue      -> 3
      [] i = LockIssue    -> 4
      [] i = JsonIssue    -> 5
      [] i = SqlIssue     -> 6
      [] i = ReflectIssue -> 7
      [] i = RegexIssue   -> 8
      [] i = SyscallIssue -> 9
      [] OTHER -> 0

\* C6: identify_hotspots emits one finding for each record that triggers a rule
\* and none for the others, in the records' order; every finding has issues,
\* and they are in rule order.
C6_OneFindingPerTriggeringRecord ==
    LET src == SelectSeq(Processed, Triggers) IN
    /\ Len(hotspots) = Len(src)
    /\ \A k \in 1..Len(hotspots) :
          LET h == hotspots[k] IN
          /\ h.function = src[k].name
          /\ h.flat_pct = src[k].flat_pct
          /\ h.cum_pct = src[k].cum_pct
          /\ Len(h.issues) > 0
          /\ \A a \in 1..Len(h.issues) : RuleOfIssue(h, h.issues[a]) > 0
          /\ \A a, b \in 1..Len(h.issues) :
                a < b => RuleOfIssue(h, h.issues[a]) < RuleOfIssue(h, h.issues[b])

\* C6 witness: a finished table with a record that triggers nothing before one
\* that triggers two rules
C6_Witness ==
    /\ Identified
    /\ \E i, j \in 1..Len(functions) :
          i < j /\ ~Triggers(functions[i]) /\ Triggers(functions[j])
    /\ \E k \in 1..Len(hotspots) : Len(hotspots[k].issues) >= 2

Carries(h, i) == \E a \in 1..Len(h.issues) : h.issues[a] = i

\* the issue a finding must carry to contribute to a category
CategoryIssue(c) ==
    CASE c = "Memory Management" -> GcIssue
      [] c = "Concurrency"       -> LockIssue
      [] c = "Serialization"     -> JsonIssue
      [] c \in {"Database", "Data Access"} -> SqlIssue
      [] c = "Code Generation"   -> ReflectIssue

\* the findings that contribute to category c, in order
Contributing(c) == SelectSeq(hotspots, LAMBDA h : Carries(h, CategoryIssue(c)))

CategoryOrderOfSpec ==
    <<"Memory Management", "Concurrency", "Serialization", "Data Access", "Code Generation">>
CategoryOrderOfCode ==
    <<"Memory Management", "Concurrency", "Serialization", "Database", "Code Generation">>

Recommended == pc \in {"report", "done"}

CategoriesEmitted == [i \in 1..Len(recommendations) |-> recommendations[i].category]

\* C7 as stated: one entry for each category with a contributing finding, in
\* the order Memory Management, Concurrency, Serialization, Data Access, Code
\* Generation, and no other entry.
C7_CategoriesInSpecOrder ==
    Recommended =>
        CategoriesEmitted =
            SelectSeq(CategoryOrderOfSpec, LAMBDA c : Len(Contributing(c)) > 0)

\* C7 amended: one entry for each category with a contributing finding, in the
\* order Memory Management, Concurrency, Serialization, Database, Code
\* Generation, and no other entry (regular-expression and system-call issues
\* give none).
C7_CategoriesInCodeOrder ==
    Recommended =>
        CategoriesEmitted =
            SelectSeq(CategoryOrderOfCode, LAMBDA c : Len(Contributing(c)) > 0)

\* C7 witness: two or more categories emitted, one of them Database, while
\* Memory Management has no contributing finding and is absent
C7_Witness ==
    /\ Recommended
    /\ Len(recommendations) >= 2
    /\ \E i \in 1..Len(recommendations) : recommendations[i].category = "Database"
    /\ Len(Contributing("Memory Management")) = 0

RECURSIVE TotalFlat(_, _)
\* flat_pct summed over the first n findings of hs
TotalFlat(hs, n) == IF n = 0 THEN 0 ELSE hs[n].flat_pct + TotalFlat(hs, n - 1)

CategoryTotal(c) == TotalFlat(Contributing(c), Len(Contributing(c)))

\* the text before the percentage in an entry's issue
CategoryPrefix(c) ==
    CASE c = "Memory Management" -> <<"G","C"," ","o","v","e","r","h","e","a","d",":"," ">>
      [] c = "Concurrency"       -> <<"L","o","c","k"," ","c","o","n","t","e","n","t","i","o","n",":"," ">>
      [] c = "Serialization"     -> <<"J","S","O","N"," ","o","v","e","r","h","e","a","d",":"," ">>
      [] c = "Database"          -> <<"D","a","t","a","b","a","s","e"," ","o","v","e","r","h","e","a","d",":"," ">>
      [] c = "Code Generation"   -> <<"R","e","f","l","e","c","t","i","o","n"," ","o","v","e","r","h","e","a","d",":"," ">>

EntriesOf(c) == SelectSeq(recommendations, LAMBDA r : r.category = c)

\* C8: a category's entry is present iff a finding carries the category's issue,
\* and its percentage is the sum of flat_pct over exactly those findings, each
\* counted once.
C8_AggregateIsSumOverCarriers ==
    Recommended =>
        \A c \in {CategoryOrderOfCode[i] : i \in 1..Len(CategoryOrderOfCode)} :
            /\ Len(Contributing(c)) > 0 <=> Len(EntriesOf(c)) > 0
            /\ \A k \in 1..Len(EntriesOf(c)) :
                  EntriesOf(c)[k].issue
                      = CategoryPrefix(c) \o Fmt1(CategoryTotal(c)) \o <<"%"," ","C","P","U">>

\* C8 witness: a Concurrency entry over two or more lock findings, next to a
\* finding that carries no lock issue
C8_Witness ==
    /\ Recommended
    /\ Len(EntriesOf("Concurrency")) > 0
    /\ Len(Contributing("Concurrency")) >= 2
    /\ \E k \in 1..Len(hotspots) : ~Carries(hotspots[k], LockIssue)

\* the priority the category's threshold gives a sum
PriorityOfTotal(c, total) ==
    CASE c = "Memory Management" -> IF total > Pct(10) THEN "HIGH" ELSE "MEDIUM"
      [] c = "Concurrency"       -> IF total > Pct(5) THEN "HIGH" ELSE "MEDIUM"
      [] c = "Serialization"     -> IF total > Pct(5) THEN "MEDIUM" ELSE "LOW"
      [] c = "Database"          -> IF total > Pct(10) THEN "HIGH" ELSE "MEDIUM"
      [] c = "Code Generation"   -> "MEDIUM"

\* C9: the priority of every entry is decided by the category's summed flat_pct
\* alone, through the category's threshold.
C9_PriorityFromCategoryTotal ==
    Recommended =>
        \A i \in 1..Len(recommendations) :
            recommendations[i].priority
                = PriorityOfTotal(recommendations[i].category,
                                  CategoryTotal(recommendations[i].category))

\* C9 witness: Concurrency is HIGH over lock findings that are each LOW and each
\* below the category's threshold
C9_Witness ==
    /\ Recommended
    /\ \E i \in 1..Len(recommendations) :
          /\ recommendations[i].category = "Concurrency"
          /\ recommendations[i].priority = "HIGH"
    /\ \A k \in 1..Len(Contributing("Concurrency")) :
          /\ Contributing("Concurrency")[k].priority = "LOW"
          /\ Contributing("Concurrency")[k].flat_pct <= Pct(5)

LinesOf(report, fmt) == SelectSeq(report, LAMBDA w : w.fmt = fmt)

\* C10: a report of n > 0 findings lists the first min(10, n) of them, numbered
\* from 1, in the order of the sequence; its summary names the first finding
\* and counts the HIGH findings among all n.
C10_ReportListsFirstTenInOrder ==
    \A r \in 1..Len(reports) :
        Len(hotspots) > 0 =>
            LET n     == Len(hotspots)
                shown == IF n < 10 THEN n ELSE 10
                heads == LinesOf(reports[r], "### {}. {} {} Priority\n\n")
                funs  == LinesOf(reports[r], "**Function:** '{}'\n\n")
                tops  == LinesOf(reports[r], "**Top Hotspot:** '{}'\n")
                crit  == LinesOf(reports[r],
                                 "**Critical Issues:** {} high-priority hotspots found\n\n")
            IN  /\ Len(heads) = shown
                /\ Len(funs) = shown
                /\ \A i \in 1..shown :
                      /\ heads[i].args[1] = Dec(i)
                      /\ heads[i].args[3] = hotspots[i].priority
                      /\ funs[i].args = <<hotspots[i].function>>
                /\ Len(tops) = 1 /\ tops[1].args = <<hotspots[1].function>>
                /\ Len(crit) = 1
                /\ crit[1].args =
                     <<Dec(Cardinality({k \in 1..n : hotspots[k].priority = "HIGH"}))>>

\* C10 witness: a report of more than ten findings whose only HIGH finding, the
\* one with the largest flat_pct, is the eleventh
C10_Witness ==
    /\ Len(reports) > 0
    /\ Len(hotspots) > 10
    /\ hotspots[11].priority = "HIGH"
    /\ \A k \in 1..10 : hotspots[k].priority # "HIGH"
                        /\ hotspots[k].flat_pct < hotspots[11].flat_pct


-----------------------------------------------------------------------------
Next ==
    \/ RunPprofTop
    \/ ParseTopOutput
    \/ Rule1 \/ Rule2 \/ Rule3 \/ Rule4 \/ Rule5 \/ Rule6 \/ Rule7 \/ Rule8 \/ Rule9
    \/ AppendHotspot
    \/ ReturnHotspots
    \/ GenerateRecommendations
    \/ GenerateReport
    \/ RenderAgain

Spec == Init /\ [][Next]_vars

=============================================================================
